---- MODULE Spec2Model ----
(***************************************************************************)
(* A model of the backtracking dependency solver of solver.go: the         *)
(* selection, the unselected frontier, the stack of version queues, the    *)
(* satisfiability check and chronological backtracking.                    *)
(*                                                                         *)
(* Project names are strings, versions are positive integers, a constraint *)
(* is one of any / >= v / < v.  The source manager is a record of tables   *)
(* fixed for the whole solve (its answers are deterministic).              *)
(***************************************************************************)
EXTENDS Integers, Sequences, FiniteSets

\* Largest version number a source manager lists or a lock names.
MaxVer == 2

Names == {"A", "B", "R"}
NonRoot == {"A", "B"}
Vers == 1..MaxVer

\* ------------------------------------------------------------------------
\* Sequence helpers
\* ------------------------------------------------------------------------
Range(f) == {f[i] : i \in DOMAIN f}

Last(seq) == seq[Len(seq)]

Front(seq) == SubSeq(seq, 1, Len(seq) - 1)

RemoveAt(seq, k) == SubSeq(seq, 1, k - 1) \o SubSeq(seq, k + 1, Len(seq))

\* ------------------------------------------------------------------------
\* Constraints and versions
\* ------------------------------------------------------------------------
Any == [op |-> "any", v |-> 0]

Ge(k) == [op |-> "ge", v |-> k]

Lt(k) == [op |-> "lt", v |-> k]

\* No declared dependency (a table entry, not a constraint).
None == [op |-> "none", v |-> 0]

\* Constraint.Matches(v)
Matches(c, v) ==
    \/ c.op = "any"
    \/ c.op = "ge" /\ v >= c.v
    \/ c.op = "lt" /\ v < c.v

\* A compound constraint is the set of its members; it matches a version
\* when every member does.
MatchesAll(cs, v) == \A c \in cs : Matches(c, v)

\* The least version admitted by the lower bounds of a set of constraints.
LowerBound(cs) ==
    LET los == {1} \cup {c.v : c \in {d \in cs : d.op = "ge"}}
    IN  CHOOSE m \in los : \A x \in los : x <= m

\* Constraint.MatchesAny: the intersection of the constraints of cs is
\* non-empty over the universe of all (positive) versions.
Intersects(cs) == \A c \in {d \in cs : d.op = "lt"} : LowerBound(cs) < c.v

MatchesAny(cs, c) == Intersects(cs \cup {c})

\* ------------------------------------------------------------------------
\* Atoms, dependencies, failures
\* ------------------------------------------------------------------------
Atom(n, v) == [Name |-> n, Version |-> v]

\* The placeholder for "no lock preference" (solver.go: nilpa).
nilpa == [Name |-> "", Version |-> -1]

\* The zero ProjectAtom (no name, no version).
emptyProjectAtom == [Name |-> "", Version |-> 0]

RootAtom == Atom("R", 1)

ProjectDep(n, c) == [Name |-> n, Constraint |-> c]

Dependency(pa, dep) == [Depender |-> pa, Dep |-> dep]

NoError == [kind |-> "nil"]

SMError(op, n) == [kind |-> "sourceManager", op |-> op, pn |-> n]


\* ------------------------------------------------------------------------
\* State
\* ------------------------------------------------------------------------
VARIABLES
    sm,         \* the source manager's tables (fixed during a solve)
    root,       \* argument of Solve: the root ProjectInfo (atom and lock)
    toUpgrade,  \* argument of Solve: names to upgrade
    rp,         \* solver.rp
    rlm,        \* solver.rlm: the root lock as a map name -> version
    latest,     \* solver.latest
    sel,        \* solver.sel: [projects, deps]
    unsel,      \* solver.unsel.sl
    versions,   \* solver.versions: stack of version queues
    attempts,   \* solver.attempts
    pc,         \* "new", "solve", "backtrack", "done", "panic"
    err,        \* solve's err: the error of the createVersionQueue call
                \* that backtrack() is called for (nil once it is retried)
    result      \* the Result returned by Solve

vars == <<sm, root, toUpgrade, rp, rlm, latest, sel, unsel, versions,
          attempts, pc, err, result>>

\* ------------------------------------------------------------------------
\* Source manager
\* ------------------------------------------------------------------------
\* SourceManager.ListVersions
ListVersions(n) ==
    IF n \in sm.listErr
    THEN [vl |-> <<>>, err |-> SMError("ListVersions", n)]
    ELSE [vl |-> sm.versions[n], err |-> NoError]

\* SourceManager.GetProjectInfo
GetProjectInfo(pa) ==
    IF pa \in sm.infoErr
    THEN [deps |-> <<>>, dev |-> <<>>, err |-> SMError("GetProjectInfo", pa.Name)]
    ELSE [deps |-> sm.deps[pa.Name][pa.Version],
          dev  |-> sm.dev[pa.Name][pa.Version],
          err  |-> NoError]

\* ------------------------------------------------------------------------
\* Selection
\* ------------------------------------------------------------------------
getDependenciesOn(sl, name) == sl.deps[name]

getConstraint(sl, name) == {d.Dep.Constraint : d \in Range(sl.deps[name])}

selected(sl, name) ==
    LET hits == {i \in DOMAIN sl.projects : sl.projects[i].Name = name}
    IN  IF hits = {}
        THEN [pa |-> nilpa, exists |-> FALSE]
        ELSE [pa |-> sl.projects[CHOOSE i \in hits : \A j \in hits : i <= j],
              exists |-> TRUE]

\* ------------------------------------------------------------------------
\* Unselected frontier
\* ------------------------------------------------------------------------
\* Lexical order of project names.
NameLess(a, b) == <<a, b>> \in {<<"A", "B">>, <<"A", "R">>, <<"B", "R">>}

unselectedComparator(s, iname, jname) ==
    LET ilock == iname \in DOMAIN s.rlm
        jlock == jname \in DOMAIN s.rlm
        iv == Len(ListVersions(iname).vl)
        jv == Len(ListVersions(jname).vl)
    IN  IF iname = jname THEN FALSE
        ELSE IF iname = s.rp.pa.Name THEN TRUE
        ELSE IF jname = s.rp.pa.Name THEN FALSE
        ELSE IF ilock /\ ~jlock THEN TRUE
        ELSE IF ~ilock /\ jlock THEN FALSE
        ELSE IF ilock /\ jlock THEN NameLess(iname, jname)
        ELSE IF iv = 0 /\ jv # 0 THEN TRUE
        ELSE IF iv # 0 /\ jv = 0 THEN FALSE
        ELSE IF iv # jv THEN iv < jv
        ELSE NameLess(iname, jname)

\* heap.Push: the frontier is kept in comparator order, least first.
Push(s, sl, n) ==
    LET before == {k \in DOMAIN sl : ~unselectedComparator(s, n, sl[k])}
    IN  SubSeq(sl, 1, Cardinality(before)) \o <<n>>
            \o SubSeq(sl, Cardinality(before) + 1, Len(sl))

\* unselected.remove: drops the first occurrence of the name, if any.
remove(sl, n) ==
    LET hits == {k \in DOMAIN sl : sl[k] = n}
    IN  IF hits = {} THEN sl
        ELSE RemoveAt(sl, CHOOSE k \in hits : \A j \in hits : k <= j)

nextUnselected(sl) ==
    IF Len(sl) > 0 THEN [ref |-> sl[1], has |-> TRUE]
    ELSE [ref |-> "", has |-> FALSE]

\* ------------------------------------------------------------------------
\* Version queue
\* ------------------------------------------------------------------------
NoQueue ==
    [ref |-> "", pi |-> <<>>, fails |-> <<>>, failed |-> FALSE,
     hasLock |-> FALSE, allLoaded |-> FALSE]

newVersionQueue(ref, lockv) ==
    IF lockv # nilpa
    THEN [q |-> [ref |-> ref, pi |-> <<lockv.Version>>, fails |-> <<>>,
                 failed |-> FALSE, hasLock |-> TRUE, allLoaded |-> FALSE],
          err |-> NoError]
    ELSE LET lv == ListVersions(ref)
         IN  IF lv.err.kind # "nil"
             THEN [q |-> NoQueue, err |-> lv.err]
             ELSE [q |-> [ref |-> ref, pi |-> lv.vl, fails |-> <<>>,
                          failed |-> FALSE, hasLock |-> FALSE,
                          allLoaded |-> TRUE],
                   err |-> NoError]

\* versionQueue.current: 0 stands for "nothing".
current(q) == IF Len(q.pi) > 0 THEN q.pi[1] ELSE 0

\* versionQueue.advance: records the reason, if one is given, and drops the
\* head; the upstream tail is loaded when the lock head is dropped.
advance(q, reason) ==
    LET logged == IF reason.kind = "nil" THEN q.fails
                  ELSE Append(q.fails, reason)
    IN  IF Len(q.pi) = 0
        THEN [q |-> q, err |-> NoError]
        ELSE IF q.allLoaded
        THEN [q |-> [q EXCEPT !.fails = logged, !.pi = Tail(q.pi)],
              err |-> NoError]
        ELSE LET lv == ListVersions(q.ref)
             IN  [q |-> [q EXCEPT !.fails = logged, !.pi = lv.vl,
                                  !.allLoaded = TRUE],
                  err |-> lv.err]

isExhausted(q) == Len(q.pi) = 0

\* ------------------------------------------------------------------------
\* Solver operations.  Each takes and returns the solver's mutable state as a
\* record: rp, rlm, latest, sel, unsel, versions, attempts, the queue q being
\* worked on (qOn: q is the top frame of the stack, held apart while it is
\* advanced) and panic, the message of a panic ("" when none).
\* ------------------------------------------------------------------------
\* F applied to the value of x (x is evaluated once).
With(x, F(_)) == CHOOSE y \in {F(v) : v \in {x}} : TRUE

Panic(s, msg) == [s EXCEPT !.panic = msg]

getDependenciesOf(s, pa) ==
    With(GetProjectInfo(pa), LAMBDA info :
        IF info.err.kind # "nil"
        THEN [deps |-> <<>>, err |-> info.err]
        ELSE [deps |-> IF s.rp.pa.Name = pa.Name
                       THEN info.deps \o info.dev
                       ELSE info.deps,
              err |-> NoError])

\* The index of the first (oldest) queue on the stack with the given ref,
\* 0 when there is none.
FirstQueue(vs, name) ==
    LET hits == {i \in DOMAIN vs : vs[i].ref = name}
    IN  IF hits = {} THEN 0 ELSE CHOOSE i \in hits : \A j \in hits : i <= j

\* fail without its test for the root: a queue that bears the root's name is
\* marked like any other.
fail_MarksRoot(s, name) ==
    With(FirstQueue(s.versions, name), LAMBDA k :
        IF k # 0 THEN [s EXCEPT !.versions[k].failed = TRUE]
        ELSE IF s.qOn /\ s.q.ref = name THEN [s EXCEPT !.q.failed = TRUE]
        ELSE s)

fail(s, name) ==
    IF s.rp.pa.Name = name THEN s
    ELSE With(FirstQueue(s.versions, name), LAMBDA k :
            IF k # 0 THEN [s EXCEPT !.versions[k].failed = TRUE]
            ELSE IF s.qOn /\ s.q.ref = name THEN [s EXCEPT !.q.failed = TRUE]
            ELSE s)

\* fail() on the depender of each edge of a list, in order.
RECURSIVE FailDependers(_, _, _)
FailDependers(s, edges, i) ==
    IF i > Len(edges) THEN s
    ELSE With(fail(s, edges[i].Depender.Name), LAMBDA s1 :
            FailDependers(s1, edges, i + 1))

\* The loop of satisfiable over the declared dependencies of pi.
RECURSIVE CheckDeps(_, _, _, _)
CheckDeps(s, pi, deps, i) ==
    IF i > Len(deps) THEN [s |-> s, err |-> NoError]
    ELSE
      LET dep == deps[i]
          siblings == getDependenciesOn(s.sel, dep.Name)
          constraint == getConstraint(s.sel, dep.Name)
          Disjoint(sib) == ~MatchesAny({sib.Dep.Constraint}, dep.Constraint)
          Joint(sib) == ~Disjoint(sib)
      IN  IF ~MatchesAny(constraint, dep.Constraint)
          THEN With(SelectSeq(siblings, Disjoint), LAMBDA failsib :
                 [s |-> FailDependers(s, failsib, 1),
                  err |-> [kind |-> "disjointConstraint",
                           goal |-> Dependency(pi, dep),
                           failsib |-> failsib,
                           nofailsib |-> SelectSeq(siblings, Joint),
                           c |-> constraint]])
          ELSE With(selected(s.sel, dep.Name), LAMBDA sl :
                 IF sl.exists /\ ~Matches(dep.Constraint, sl.pa.Version)
                 THEN [s |-> fail(s, dep.Name),
                       err |-> [kind |-> "constraintNotAllowed",
                                goal |-> Dependency(pi, dep),
                                v |-> sl.pa.Version]]
                 ELSE CheckDeps(s, pi, deps, i + 1))

\* satisfiable without its first phase: the atom's own version is not held
\* against the constraints already on its name.
satisfiable_SkipPhase1(s, pi) ==
    With(getDependenciesOf(s, pi), LAMBDA own :
        IF own.err.kind # "nil" THEN [s |-> s, err |-> own.err]
        ELSE CheckDeps(s, pi, own.deps, 1))

satisfiable(s, pi) ==
    IF pi = emptyProjectAtom
    THEN [s |-> Panic(s, "canary - checking version of empty ProjectAtom"),
          err |-> NoError]
    ELSE
      LET constraint == getConstraint(s.sel, pi.Name)
          deps == getDependenciesOn(s.sel, pi.Name)
          Rejects(dep) == ~Matches(dep.Dep.Constraint, pi.Version)
      IN  IF ~MatchesAll(constraint, pi.Version)
          THEN With(SelectSeq(deps, Rejects), LAMBDA failparent :
                 [s |-> FailDependers(s, failparent, 1),
                  err |-> [kind |-> "versionNotAllowed", goal |-> pi,
                           failparent |-> failparent, c |-> constraint]])
          ELSE With(getDependenciesOf(s, pi), LAMBDA own :
                 IF own.err.kind # "nil" THEN [s |-> s, err |-> own.err]
                 ELSE CheckDeps(s, pi, own.deps, 1))

\* The loop of selectVersion over the declared dependencies of pa.
RECURSIVE AddEdges(_, _, _, _)
AddEdges(s, pa, deps, i) ==
    IF i > Len(deps) THEN s
    ELSE
      LET dep == deps[i]
          siblingsAndSelf ==
              Append(getDependenciesOn(s.sel, dep.Name), Dependency(pa, dep))
      IN  With([s EXCEPT !.sel.deps[dep.Name] = siblingsAndSelf,
                         !.unsel = IF Len(siblingsAndSelf) = 1
                                   THEN Push(s, s.unsel, dep.Name)
                                   ELSE s.unsel],
               LAMBDA s1 : AddEdges(s1, pa, deps, i + 1))

selectVersion(s, pa) ==
    With(getDependenciesOf(s, pa), LAMBDA own :
      With([s EXCEPT !.unsel = remove(s.unsel, pa.Name),
                     !.sel.projects = Append(s.sel.projects, pa)],
           LAMBDA s1 :
             IF own.err.kind # "nil" THEN Panic(s1, "shouldn't be possible")
             ELSE AddEdges(s1, pa, own.deps, 1)))

\* The loop of unselectLast dropping the oldest edge on each name instead of
\* the newest.
RECURSIVE DropEdges_DropsOldest(_, _, _, _)
DropEdges_DropsOldest(s, pa, deps, i) ==
    IF i > Len(deps) THEN s
    ELSE
      LET dep == deps[i]
          old == getDependenciesOn(s.sel, dep.Name)
      IN  IF Len(old) = 0 THEN Panic(s, "slice bounds out of range")
          ELSE With([s EXCEPT !.sel.deps[dep.Name] = Tail(old),
                              !.unsel = IF Len(old) = 1
                                        THEN remove(s.unsel, dep.Name)
                                        ELSE s.unsel],
                    LAMBDA s1 : DropEdges_DropsOldest(s1, pa, deps, i + 1))

\* The loop of unselectLast over the declared dependencies of pa.
RECURSIVE DropEdges(_, _, _, _)
DropEdges(s, pa, deps, i) ==
    IF i > Len(deps) THEN s
    ELSE
      LET dep == deps[i]
          old == getDependenciesOn(s.sel, dep.Name)
      IN  IF Len(old) = 0 THEN Panic(s, "slice bounds out of range")
          ELSE With([s EXCEPT !.sel.deps[dep.Name] = Front(old),
                              !.unsel = IF Len(old) = 1
                                        THEN remove(s.unsel, dep.Name)
                                        ELSE s.unsel],
                    LAMBDA s1 : DropEdges(s1, pa, deps, i + 1))

unselectLast(s) ==
    IF Len(s.sel.projects) = 0 THEN Panic(s, "index out of range")
    ELSE
      With(Last(s.sel.projects), LAMBDA pa :
        With(getDependenciesOf(s, pa), LAMBDA own :
          With([s EXCEPT !.sel.projects = Front(s.sel.projects),
                         !.unsel = Push(s, s.unsel, pa.Name)],
               LAMBDA s1 :
                 IF own.err.kind # "nil"
                 THEN Panic(s1, "shouldn't be possible")
                 ELSE DropEdges(s1, pa, own.deps, 1))))

\* getLockVersionIfValid with the constraint test inverted: a locked version
\* the constraints allow is dropped.
getLockVersionIfValid_Inverted(s, ref) ==
    IF ref \in s.latest /\ sm.repo[ref] # "yes" THEN nilpa
    ELSE IF ref \notin DOMAIN s.rlm THEN nilpa
    ELSE IF MatchesAll(getConstraint(s.sel, ref), s.rlm[ref]) THEN nilpa
    ELSE Atom(ref, s.rlm[ref])

getLockVersionIfValid(s, ref) ==
    IF ref \in s.latest /\ sm.repo[ref] # "yes" THEN nilpa
    ELSE IF ref \notin DOMAIN s.rlm THEN nilpa
    ELSE IF ~MatchesAll(getConstraint(s.sel, ref), s.rlm[ref]) THEN nilpa
    ELSE Atom(ref, s.rlm[ref])

\* The walk of findValidVersion giving up after its first candidate.
Walk_OneCandidate(s) ==
    With(satisfiable(s, Atom(s.q.ref, current(s.q))), LAMBDA r :
        IF r.s.panic # "" THEN [s |-> r.s, found |-> FALSE]
        ELSE IF r.err.kind = "nil" THEN [s |-> r.s, found |-> TRUE]
        ELSE [s |-> [r.s EXCEPT !.q = advance(r.s.q, r.err).q],
              found |-> FALSE])

\* The walk of findValidVersion over the queue s.q.
RECURSIVE Walk(_)
Walk(s) ==
    With(satisfiable(s, Atom(s.q.ref, current(s.q))), LAMBDA r :
        IF r.s.panic # "" THEN [s |-> r.s, found |-> FALSE]
        ELSE IF r.err.kind = "nil" THEN [s |-> r.s, found |-> TRUE]
        ELSE With(advance(r.s.q, r.err), LAMBDA a :
               With([r.s EXCEPT !.q = a.q], LAMBDA s1 :
                 IF a.err.kind # "nil" THEN [s |-> s1, found |-> FALSE]
                 ELSE IF isExhausted(a.q) THEN [s |-> s1, found |-> FALSE]
                 ELSE Walk(s1))))

\* findValidVersion returning the queue's whole failure log, the failures of
\* earlier walks included.
findValidVersion_WholeLog(s) ==
    IF current(s.q) = 0
    THEN [s |-> Panic(s, "version queue is empty, should not happen"),
          err |-> NoError]
    ELSE
      With(Walk(s), LAMBDA w :
        LET on == getDependenciesOn(w.s.sel, w.s.q.ref)
        IN  IF w.s.panic # "" THEN [s |-> w.s, err |-> NoError]
            ELSE IF w.found THEN [s |-> w.s, err |-> NoError]
            ELSE IF Len(on) = 0
            THEN [s |-> Panic(w.s, "index out of range"), err |-> NoError]
            ELSE [s |-> fail(w.s, on[1].Depender.Name),
                  err |-> [kind |-> "noVersion", pn |-> w.s.q.ref,
                           fails |-> w.s.q.fails]])

findValidVersion(s) ==
    IF current(s.q) = 0
    THEN [s |-> Panic(s, "version queue is empty, should not happen"),
          err |-> NoError]
    ELSE
      With(Walk(s), LAMBDA w :
        LET faillen == Len(s.q.fails)
            on == getDependenciesOn(w.s.sel, w.s.q.ref)
        IN  IF w.s.panic # "" THEN [s |-> w.s, err |-> NoError]
            ELSE IF w.found THEN [s |-> w.s, err |-> NoError]
            ELSE IF Len(on) = 0
            THEN [s |-> Panic(w.s, "index out of range"), err |-> NoError]
            ELSE [s |-> fail(w.s, on[1].Depender.Name),
                  err |-> [kind |-> "noVersion", pn |-> w.s.q.ref,
                           fails |-> SubSeq(w.s.q.fails, faillen + 1,
                                            Len(w.s.q.fails))]])

\* createVersionQueue going on to make a queue for a project that exists
\* neither upstream nor in vendor.
createVersionQueue_NoExistenceCheck(s, ref) ==
    IF ref = s.rp.pa.Name
    THEN With(newVersionQueue(ref, nilpa), LAMBDA n :
           [s |-> [s EXCEPT !.q = n.q, !.qOn = FALSE], err |-> n.err])
    ELSE IF sm.repo[ref] = "err"
    THEN [s |-> s, err |-> SMError("RepoExists", ref)]
    ELSE IF sm.repo[ref] = "no" /\ sm.vendor[ref] = "err"
    THEN [s |-> s, err |-> SMError("VendorCodeExists", ref)]
    ELSE With(newVersionQueue(ref, getLockVersionIfValid(s, ref)), LAMBDA n :
           IF n.err.kind # "nil" THEN [s |-> s, err |-> n.err]
           ELSE findValidVersion([s EXCEPT !.q = n.q, !.qOn = FALSE]))

createVersionQueue(s, ref) ==
    IF ref = s.rp.pa.Name
    THEN With(newVersionQueue(ref, nilpa), LAMBDA n :
           [s |-> [s EXCEPT !.q = n.q, !.qOn = FALSE], err |-> n.err])
    ELSE IF sm.repo[ref] = "err"
    THEN [s |-> s, err |-> SMError("RepoExists", ref)]
    ELSE IF sm.repo[ref] = "no" /\ sm.vendor[ref] = "err"
    THEN [s |-> s, err |-> SMError("VendorCodeExists", ref)]
    ELSE IF sm.repo[ref] = "no" /\ sm.vendor[ref] = "no"
    THEN [s |-> s, err |-> [kind |-> "cannotResolve", pn |-> ref]]
    ELSE With(newVersionQueue(ref, getLockVersionIfValid(s, ref)), LAMBDA n :
           IF n.err.kind # "nil" THEN [s |-> s, err |-> n.err]
           ELSE findValidVersion([s EXCEPT !.q = n.q, !.qOn = FALSE]))

\* The inner loop of backtrack popping queues without retracting their atoms.
RECURSIVE PopUnfailed_NoUnselect(_)
PopUnfailed_NoUnselect(s) ==
    IF s.panic # "" THEN s
    ELSE IF Len(s.versions) = 0 THEN s
    ELSE IF Last(s.versions).failed THEN s
    ELSE PopUnfailed_NoUnselect([s EXCEPT !.versions = Front(s.versions)])

\* The inner loop of backtrack: pop the frames that are not marked failed.
RECURSIVE PopUnfailed(_)
PopUnfailed(s) ==
    IF s.panic # "" THEN s
    ELSE IF Len(s.versions) = 0 THEN s
    ELSE IF Last(s.versions).failed THEN s
    ELSE With(unselectLast([s EXCEPT !.versions = Front(s.versions)]),
              LAMBDA s1 : PopUnfailed(s1))

\* The outer loop of backtrack advancing the failed queue without retracting
\* the atom committed from it.
RECURSIVE Retry_KeepsAtom(_)
Retry_KeepsAtom(s) ==
    With(PopUnfailed(s), LAMBDA s1 :
      IF s1.panic # "" \/ Len(s1.versions) = 0 THEN [s |-> s1, ok |-> FALSE]
      ELSE
        With([s1 EXCEPT !.versions = Front(s1.versions),
                        !.q = Last(s1.versions), !.qOn = TRUE],
             LAMBDA s2 :
            With(advance(s2.q, NoError), LAMBDA a :
              IF a.err.kind = "nil" /\ ~isExhausted(a.q)
              THEN
                With(findValidVersion([s2 EXCEPT !.q = a.q]), LAMBDA f :
                  IF f.s.panic # "" THEN [s |-> f.s, ok |-> FALSE]
                  ELSE IF f.err.kind = "nil"
                  THEN With(selectVersion(f.s, Atom(f.s.q.ref,
                                                    current(f.s.q))),
                            LAMBDA s4 :
                              [s |-> [s4 EXCEPT
                                        !.versions = Append(s4.versions, s4.q),
                                        !.q = NoQueue, !.qOn = FALSE],
                               ok |-> TRUE])
                  ELSE Retry_KeepsAtom([f.s EXCEPT !.q = NoQueue,
                                                   !.qOn = FALSE]))
              ELSE Retry_KeepsAtom([s2 EXCEPT !.q = NoQueue,
                                              !.qOn = FALSE]))))

\* The outer loop of backtrack.  The top frame is held in q while it is
\* advanced and is put back on the stack when a version of it is re-committed.
RECURSIVE Retry(_)
Retry(s) ==
    With(PopUnfailed(s), LAMBDA s1 :
      IF s1.panic # "" \/ Len(s1.versions) = 0 THEN [s |-> s1, ok |-> FALSE]
      ELSE
        With(unselectLast([s1 EXCEPT !.versions = Front(s1.versions),
                                     !.q = Last(s1.versions), !.qOn = TRUE]),
             LAMBDA s2 :
          IF s2.panic # "" THEN [s |-> s2, ok |-> FALSE]
          ELSE
            With(advance(s2.q, NoError), LAMBDA a :
              IF a.err.kind = "nil" /\ ~isExhausted(a.q)
              THEN
                With(findValidVersion([s2 EXCEPT !.q = a.q]), LAMBDA f :
                  IF f.s.panic # "" THEN [s |-> f.s, ok |-> FALSE]
                  ELSE IF f.err.kind = "nil"
                  THEN With(selectVersion(f.s, Atom(f.s.q.ref,
                                                    current(f.s.q))),
                            LAMBDA s4 :
                              [s |-> [s4 EXCEPT
                                        !.versions = Append(s4.versions, s4.q),
                                        !.q = NoQueue, !.qOn = FALSE],
                               ok |-> TRUE])
                  ELSE Retry([f.s EXCEPT !.q = NoQueue, !.qOn = FALSE]))
              ELSE Retry([s2 EXCEPT !.q = NoQueue, !.qOn = FALSE]))))

\* backtrack counting every call that finds a queue on the stack, the
\* unsuccessful ones included.
backtrack_CountsFailures(s) ==
    IF Len(s.versions) = 0 THEN [s |-> s, ok |-> FALSE]
    ELSE With(Retry(s), LAMBDA r :
           IF r.s.panic # "" THEN r
           ELSE [s |-> [r.s EXCEPT !.attempts = r.s.attempts + 1],
                 ok |-> r.ok /\ Len(r.s.versions) # 0])

backtrack(s) ==
    IF Len(s.versions) = 0 THEN [s |-> s, ok |-> FALSE]
    ELSE With(Retry(s), LAMBDA r :
           IF r.s.panic # "" \/ ~r.ok THEN r
           ELSE IF Len(r.s.versions) = 0 THEN [s |-> r.s, ok |-> FALSE]
           ELSE [s |-> [r.s EXCEPT !.attempts = r.s.attempts + 1],
                 ok |-> TRUE])

\* ------------------------------------------------------------------------
\* Inputs: the source managers, locks and upgrade lists a solve is run on
\* ------------------------------------------------------------------------
Dep1(n, c) == IF c = None THEN <<>> ELSE <<ProjectDep(n, c)>>

\* Version lists without repetition, in any order / newest first.
AllLists ==
    {l \in UNION {[1..n -> Vers] : n \in 0..MaxVer} :
        \A i, j \in DOMAIN l : i # j => l[i] # l[j]}

DescLists == {l \in AllLists : \A i, j \in DOMAIN l : i < j => l[i] > l[j]}

\* Locks: any version of A, and B@2, each present or not.
Locks ==
    {l \in UNION {[S -> Vers] : S \in SUBSET NonRoot} :
        "B" \in DOMAIN l => l["B"] = 2}

\* How a project exists: upstream, only in vendor, nowhere, or unknown
\* because the source manager fails.
Upstream == [repo |-> "yes", vendor |-> "yes"]

VendorOnly == [repo |-> "no", vendor |-> "yes"]

Existence ==
    {Upstream, VendorOnly, [repo |-> "no", vendor |-> "no"],
     [repo |-> "no", vendor |-> "err"], [repo |-> "err", vendor |-> "no"]}

\* A source manager.  The root R@1 depends on A (rA) and, as a dev
\* dependency, on B (rB); other versions of R declare r2.  A@v depends on B
\* (aHi for v >= 2, else aLo) and on R (aR); B@v depends on A (bHi / bLo) and
\* carries a dev dependency, which only counts for the root.
MkSM(vR, vA, vB, rA, rB, r2, aHi, aLo, aR, bHi, bLo, exA, exB, lerr, ierr) ==
    [versions |-> [n \in Names |->
                     IF n = "R" THEN vR ELSE IF n = "A" THEN vA ELSE vB],
     deps |-> [n \in Names |-> [v \in Vers |->
                 IF n = "R" THEN (IF v = 1 THEN Dep1("A", rA) ELSE r2)
                 ELSE IF n = "A"
                 THEN Dep1("B", IF v >= 2 THEN aHi ELSE aLo) \o Dep1("R", aR)
                 ELSE Dep1("A", IF v >= 2 THEN bHi ELSE bLo)]],
     dev |-> [n \in Names |-> [v \in Vers |->
                 IF n = "R" THEN (IF v = 1 THEN Dep1("B", rB) ELSE <<>>)
                 ELSE IF n = "B" THEN <<ProjectDep("A", Lt(2))>>
                 ELSE <<>>]],
     repo |-> [n \in Names |->
                 IF n = "A" THEN exA.repo ELSE IF n = "B" THEN exB.repo
                 ELSE "yes"],
     vendor |-> [n \in Names |->
                 IF n = "A" THEN exA.vendor ELSE IF n = "B" THEN exB.vendor
                 ELSE "yes"],
     listErr |-> lerr,
     infoErr |-> ierr]

NoLock == [pa |-> RootAtom, lock |-> <<>>]

\* Dependency graphs between A and B, no lock, no failing manager.
GraphInputs ==
    \E vA, vB \in DescLists, rA \in {None, Any, Ge(2), Ge(3)},
       rB \in {None, Any}, aHi \in {None, Any, Lt(2)}, aLo \in {None, Lt(2)},
       bHi, bLo \in {None, Any, Ge(2), Lt(2)} :
        /\ sm = MkSM(<<1>>, vA, vB, rA, rB, <<>>, aHi, aLo, None, bHi, bLo,
                     Upstream, Upstream, {}, {})
        /\ root = NoLock
        /\ toUpgrade = {}

\* Locks and upgrades.
LockInputs ==
    \E vA \in AllLists, vB \in {<<1>>, <<2, 1>>}, rA \in {Any, Ge(2)},
       rB \in {None, Any}, bHi \in {None, Ge(2), Lt(2)}, lock \in Locks,
       up \in {{}, {"A"}, {"A", "B"}}, exA \in {Upstream, VendorOnly} :
        /\ sm = MkSM(<<1>>, vA, vB, rA, rB, <<>>, None, None, None, bHi, None,
                     exA, Upstream, {}, {})
        /\ root = [pa |-> RootAtom, lock |-> lock]
        /\ toUpgrade = up

\* Missing projects and failing source managers.
ErrorInputs ==
    \E vB \in DescLists, rB \in {None, Any}, aHi \in {None, Any},
       exA, exB \in Existence, lerr \in SUBSET NonRoot,
       ierr \in {{}, {Atom("A", 2)}, {Atom("B", 1)}, {RootAtom}} :
        /\ sm = MkSM(<<1>>, <<2, 1>>, vB, Any, rB, <<>>, aHi, None, None,
                     None, None, exA, exB, lerr, ierr)
        /\ root = NoLock
        /\ toUpgrade = {}

\* Projects that depend on the root.
CycleInputs ==
    \E vR, vA \in DescLists, vB \in {<<>>, <<1>>}, rA \in {Any, Lt(2)},
       rB \in {None, Any}, aB \in {None, Any}, aR \in {Any, Ge(2), Lt(2)},
       bA \in {None, Ge(2)},
       r2 \in {<<>>, <<ProjectDep("A", Ge(2))>>, <<ProjectDep("B", Any)>>} :
        /\ sm = MkSM(vR, vA, vB, rA, rB, r2, aB, aB, aR, bA, bA,
                     Upstream, Upstream, {}, {})
        /\ root = NoLock
        /\ toUpgrade = {}

\* A locked B that is walked twice: B is selected before A, its lock head
\* may be rejected, and A's failure may send the solver back to B's queue.
RetryInputs ==
    \E vA \in DescLists, vB \in {<<2, 1>>, <<1, 2>>}, rA \in {Any, Ge(2)},
       bHi \in {None, Ge(2)}, bLo \in {None, Lt(2)},
       lock \in [{"B"} -> Vers] :
        /\ sm = MkSM(<<1>>, vA, vB, rA, Any, <<>>, None, None, None, bHi, bLo,
                     Upstream, Upstream, {}, {})
        /\ root = [pa |-> RootAtom, lock |-> lock]
        /\ toUpgrade = {}

\* ------------------------------------------------------------------------
\* The state machine
\* ------------------------------------------------------------------------
\* NewSolver: nothing selected, no lock map, no upgrade set.
Init ==
    /\ GraphInputs \/ LockInputs \/ ErrorInputs \/ CycleInputs
          \/ RetryInputs
    /\ rp = [pa |-> emptyProjectAtom, lock |-> <<>>]
    /\ rlm = <<>>
    /\ latest = {}
    /\ sel = [projects |-> <<>>, deps |-> [n \in Names |-> <<>>]]
    /\ unsel = <<>>
    /\ versions = <<>>
    /\ attempts = 0
    /\ pc = "new"
    /\ err = NoError
    /\ result = [Projects |-> <<>>, SolveFailure |-> NoError]

\* The solver's mutable state as a record.
State ==
    [rp |-> rp, rlm |-> rlm, latest |-> latest, sel |-> sel,
     unsel |-> unsel, versions |-> versions, attempts |-> attempts,
     q |-> NoQueue, qOn |-> FALSE, panic |-> ""]

\* The solver's state after an operation.
Becomes(s) ==
    /\ rp' = s.rp
    /\ rlm' = s.rlm
    /\ latest' = s.latest
    /\ sel' = s.sel
    /\ unsel' = s.unsel
    /\ versions' = s.versions
    /\ attempts' = s.attempts

\* Solve, up to the call of solve(): records the root, the lock and the
\* upgrade set, and selects the root.
Solve ==
    /\ pc = "new"
    /\ \E s \in {selectVersion([State EXCEPT !.rp = root,
                                             !.rlm = root.lock,
                                             !.latest = toUpgrade],
                               root.pa)} :
           /\ Becomes(s)
           /\ pc' = IF s.panic # "" THEN "panic" ELSE "solve"
    /\ UNCHANGED <<sm, root, toUpgrade, err, result>>

\* One iteration of the loop of solve(): success when the frontier is empty;
\* otherwise a version queue is made for the next name and its current
\* version is committed, or, when that fails, backtrack() is called next.
Step ==
    /\ pc = "solve"
    /\ IF ~nextUnselected(unsel).has
       THEN /\ pc' = "done"
            /\ result' = [Projects |-> sel.projects, SolveFailure |-> NoError]
            /\ UNCHANGED <<rp, rlm, latest, sel, unsel, versions, attempts,
                           err>>
       ELSE \E r \in {createVersionQueue(State, nextUnselected(unsel).ref)} :
              IF r.s.panic # ""
              THEN /\ pc' = "panic"
                   /\ Becomes(r.s)
                   /\ UNCHANGED <<err, result>>
              ELSE IF r.err.kind # "nil"
              THEN /\ pc' = "backtrack"
                   /\ err' = r.err
                   /\ Becomes(r.s)
                   /\ UNCHANGED result
              ELSE IF current(r.s.q) = 0
              THEN /\ pc' = "panic"
                   /\ Becomes(r.s)
                   /\ UNCHANGED <<err, result>>
              ELSE \E s1 \in {selectVersion(r.s, Atom(r.s.q.ref,
                                                      current(r.s.q)))} :
                     /\ pc' = IF s1.panic # "" THEN "panic" ELSE "solve"
                     /\ Becomes([s1 EXCEPT
                                   !.versions = Append(s1.versions, r.s.q)])
                     /\ UNCHANGED <<err, result>>
    /\ UNCHANGED <<sm, root, toUpgrade>>

\* The failing return of solve() handing back the selection with the error.
Backtrack_KeepsProjects ==
    /\ pc = "backtrack"
    /\ \E r \in {backtrack(State)} :
           /\ Becomes(r.s)
           /\ IF r.s.panic # ""
              THEN pc' = "panic" /\ UNCHANGED <<err, result>>
              ELSE IF r.ok
              THEN pc' = "solve" /\ err' = NoError /\ UNCHANGED result
              ELSE /\ pc' = "done"
                   /\ result' = [Projects |-> sel.projects,
                                 SolveFailure |-> err]
                   /\ UNCHANGED err
    /\ UNCHANGED <<sm, root, toUpgrade>>

\* The call of backtrack() after a failed createVersionQueue, and what
\* solve() does with its answer: go round the loop again or return the error.
Backtrack ==
    /\ pc = "backtrack"
    /\ \E r \in {backtrack(State)} :
           /\ Becomes(r.s)
           /\ IF r.s.panic # ""
              THEN pc' = "panic" /\ UNCHANGED <<err, result>>
              ELSE IF r.ok
              THEN pc' = "solve" /\ err' = NoError /\ UNCHANGED result
              ELSE /\ pc' = "done"
                   /\ result' = [Projects |-> <<>>, SolveFailure |-> err]
                   /\ UNCHANGED err
    /\ UNCHANGED <<sm, root, toUpgrade>>

Next == Solve \/ Step \/ Backtrack

Spec == Init /\ [][Next]_vars

\* Solve runs to its end: the loop of solve() goes on while it can.
FairSpec == Spec /\ WF_vars(Next)

\* ------------------------------------------------------------------------
\* Properties
\* ------------------------------------------------------------------------
Succeeded == pc = "done" /\ result.SolveFailure.kind = "nil"

Failed == pc = "done" /\ result.SolveFailure.kind # "nil"

\* The dependencies an atom declares (for the root, dev dependencies too).
Declared(pa) == getDependenciesOf(State, pa).deps

\* Every dependency declared by an atom of ps is matched by some atom of ps.
Satisfied(ps) ==
    \A p \in Range(ps) : \A d \in Range(Declared(p)) :
        \E x \in Range(ps) : x.Name = d.Name /\ Matches(d.Constraint, x.Version)

\* Some project declares a dependency on the root.
DependsOnRoot ==
    \E n \in Names, v \in Vers : \E d \in Range(sm.deps[n][v]) : d.Name = "R"

\* C1: when Solve returns success, every dependency declared by an atom of
\* Projects is matched by the version of an atom of Projects.
C1_ConstraintsSatisfied == Succeeded => Satisfied(result.Projects)

\* An atom the source manager can supply: the project is found, the version
\* is listed and its manifest can be read.  The root is given.
Eligible(n, v) ==
    IF n = "R" THEN Atom(n, v) = root.pa /\ root.pa \notin sm.infoErr
    ELSE /\ sm.repo[n] = "yes" \/ (sm.repo[n] = "no" /\ sm.vendor[n] = "yes")
         /\ n \notin sm.listErr
         /\ v \in Range(sm.versions[n])
         /\ Atom(n, v) \notin sm.infoErr

\* The satisfying assignments: one eligible version for each project of a
\* set that holds the root and is closed under the declared dependencies,
\* every declared constraint matching the version chosen for its target.
Assignments ==
    {f \in UNION {[S -> Vers] : S \in {T \in SUBSET Names : "R" \in T}} :
        /\ \A n \in DOMAIN f : Eligible(n, f[n])
        /\ \A n \in DOMAIN f : \A d \in Range(Declared(Atom(n, f[n]))) :
              d.Name \in DOMAIN f /\ Matches(d.Constraint, f[d.Name])}

\* C2: when Solve returns a failure, no satisfying assignment exists.
C2_FailureMeansUnsatisfiable == Failed => Assignments = {}

\* The names reachable from the root through the dependencies declared by
\* the atoms of ps.
RECURSIVE Closure(_, _)
Closure(ps, S) ==
    LET T == S \cup {d.Name : d \in UNION {Range(Declared(p)) :
                                   p \in {x \in Range(ps) : x.Name \in S}}}
    IN  IF T = S THEN S ELSE Closure(ps, T)

OneAtomPerName(ps) == \A i, j \in DOMAIN ps : ps[i].Name = ps[j].Name => i = j

\* C3: when Solve returns success, the names of Projects are exactly the
\* names reachable from the root through the chosen atoms, one atom each.
C3_ExactlyTheRequired ==
    Succeeded =>
        /\ {p.Name : p \in Range(result.Projects)}
               = Closure(result.Projects, {"R"})
        /\ OneAtomPerName(result.Projects)

\* C4: for the next name to select, when it is marked to upgrade and exists
\* upstream the lock-biased atom is the nil placeholder; and with the root
\* the only depender of A, A marked to upgrade and found upstream, a
\* successful Solve selects the first version the manager lists that the
\* root's constraint allows.
C4_UpgradeIgnoresLock ==
    /\ pc = "solve" /\ unsel # <<>> /\ unsel[1] \in latest
           /\ sm.repo[unsel[1]] = "yes"
       => getLockVersionIfValid(State, unsel[1]) = nilpa
    /\ Succeeded /\ "A" \in toUpgrade /\ sm.repo["A"] = "yes"
           /\ (\A v \in Vers : sm.deps["B"][v] = <<>>)
       => \A i \in DOMAIN result.Projects :
            result.Projects[i].Name = "A" =>
              \E k \in DOMAIN sm.versions["A"] :
                /\ result.Projects[i].Version = sm.versions["A"][k]
                /\ \A j \in 1..(k - 1) :
                     ~MatchesAll(getConstraint(sel, "A"), sm.versions["A"][j])

\* The project is found by the source manager, upstream or in vendor.
Found(n) ==
    sm.repo[n] = "yes" \/ (sm.repo[n] = "no" /\ sm.vendor[n] = "yes")

\* The atom a recorded failure is about.
Subject(f) ==
    IF f.kind = "versionNotAllowed" THEN f.goal
    ELSE IF f.kind \in {"disjointConstraint", "constraintNotAllowed"}
    THEN f.goal.Depender
    ELSE Atom(f.pn, 0)

\* The next name to select has a lock entry that the constraints on it
\* allow, and is not marked to upgrade.
LockedHead ==
    /\ pc = "solve" /\ unsel # <<>>
    /\ unsel[1] # rp.pa.Name
    /\ Found(unsel[1])
    /\ unsel[1] \notin latest
    /\ unsel[1] \in DOMAIN rlm
    /\ MatchesAll(getConstraint(sel, unsel[1]), rlm[unsel[1]])

\* C5: for a name that is not marked to upgrade and whose locked version
\* the current constraints allow, the queue starts at the locked version,
\* so it is the first candidate checked; when that check succeeds the
\* locked version is committed, and otherwise the first failure recorded is
\* the locked version's.
C5_LockedVersionFirst ==
    [][LockedHead =>
        LET ref == unsel[1]
            locked == Atom(ref, rlm[ref])
            q == newVersionQueue(ref, getLockVersionIfValid(State, ref)).q
            check == satisfiable(State, locked)
            log == IF pc' = "solve" THEN Last(versions').fails ELSE err'.fails
        IN  /\ current(q) = rlm[ref]
            /\ pc' \in {"solve", "backtrack"}
            /\ IF check.err.kind = "nil"
               THEN /\ pc' = "solve"
                    /\ sel'.projects = Append(sel.projects, locked)
                    /\ Last(versions').pi = <<rlm[ref]>>
               ELSE /\ log # <<>>
                    /\ Subject(log[1]).Name = ref
                    /\ Subject(log[1]).Version \in {rlm[ref], 0}]_vars

\* The locked A@1 was committed although the manager lists A@2 first.
C5_Witness ==
    /\ Succeeded
    /\ result.Projects = <<RootAtom, Atom("A", 1)>>
    /\ sm.versions["A"] = <<2, 1>>
    /\ "A" \in DOMAIN rlm /\ rlm["A"] = 1
    /\ "A" \notin latest

\* Scenario: R depends on A (>= 2) and B (any); B@2 depends on A (< 2), B@1
\* on A (>= 2); A, with newest version 2, declares nothing; no lock.
Scenario4 ==
    /\ sm.deps["R"][1] = <<ProjectDep("A", Ge(2))>>
    /\ sm.dev["R"][1] = <<ProjectDep("B", Any)>>
    /\ sm.versions["B"] = <<2, 1>>
    /\ sm.deps["B"][2] = <<ProjectDep("A", Lt(2))>>
    /\ sm.deps["B"][1] = <<ProjectDep("A", Ge(2))>>
    /\ sm.versions["A"] \in {<<2>>, <<2, 1>>}
    /\ \A v \in Vers : sm.deps["A"][v] = <<>>
    /\ Found("A") /\ Found("B")
    /\ sm.listErr = {} /\ sm.infoErr = {}
    /\ DOMAIN root.lock = {} /\ toUpgrade = {}

Scenario4Result ==
    /\ Succeeded
    /\ Len(result.Projects) = 3
    /\ Range(result.Projects) = {RootAtom, Atom("A", 2), Atom("B", 1)}

\* C6 as stated: in the scenario Solve returns R, A@2, B@1 with attempts
\* at least 1.
C6_Scenario4WithAttempts ==
    Scenario4 =>
        /\ pc # "panic"
        /\ pc = "done" => Scenario4Result /\ attempts >= 1

\* C6 amended: in the scenario Solve returns R, A@2, B@1 and attempts is 0:
\* B@2 is rejected within the walk of B's queue, backtrack is not called.
C6_Scenario4NoBacktrack ==
    Scenario4 =>
        /\ pc \notin {"panic", "backtrack"}
        /\ pc = "done" => Scenario4Result /\ attempts = 0

C6_Witness == Scenario4 /\ Scenario4Result /\ attempts = 0

\* The root declares a dependency on A whose constraint rejects every
\* version the manager lists for A, and there is at least one.
RootRejectsAllOfA ==
    /\ Found("A") /\ "A" \notin sm.listErr
    /\ sm.versions["A"] # <<>>
    /\ \E d \in Range(Declared(root.pa)) :
          /\ d.Name = "A"
          /\ \A v \in Range(sm.versions["A"]) : ~Matches(d.Constraint, v)

\* A is next, with no queue on the stack (no decision to go back to).
AFirst == versions = <<>> /\ unsel # <<>> /\ unsel[1] = "A"

\* A NoVersion failure for A holding one VersionNotAllowed failure for each
\* listed version of A, in the manager's order.
NoVersionOfA(e) ==
    /\ e.kind = "noVersion" /\ e.pn = "A"
    /\ Len(e.fails) = Len(sm.versions["A"])
    /\ \A i \in DOMAIN e.fails :
          /\ e.fails[i].kind = "versionNotAllowed"
          /\ e.fails[i].goal = Atom("A", sm.versions["A"][i])

RejectedA(pre) ==
    /\ pc = "solve" /\ AFirst /\ pre
         => pc' = "backtrack" /\ NoVersionOfA(err')
    /\ pc = "backtrack" /\ AFirst /\ pre
         => /\ pc' = "done"
            /\ NoVersionOfA(err)
            /\ result' = [Projects |-> <<>>, SolveFailure |-> err]

\* C7 as stated: when the root's constraint rejects every listed version of
\* A and no decision precedes A, Solve returns NoVersion for A with one
\* VersionNotAllowed failure for each listed version, in order.
C7_AllVersionsRejected == [][RejectedA(RootRejectsAllOfA)]_vars

\* The lock holds no version of A that the root's constraint allows.
NoUsableLockOfA ==
    "A" \in DOMAIN root.lock =>
        \E d \in Range(Declared(root.pa)) :
            d.Name = "A" /\ ~Matches(d.Constraint, root.lock["A"])

\* C7 amended: the same, provided the lock holds no version of A that the
\* root's constraint allows.
C7_AllVersionsRejectedNoLock ==
    [][RejectedA(RootRejectsAllOfA /\ NoUsableLockOfA)]_vars

\* Solve failed on A with two versions listed, both rejected by the root.
C7_Witness ==
    /\ Failed /\ RootRejectsAllOfA /\ NoUsableLockOfA
    /\ Len(sm.versions["A"]) = 2
    /\ NoVersionOfA(result.SolveFailure)

\* The next name to select is not the root and exists nowhere.
MissingHead ==
    /\ pc = "solve" /\ unsel # <<>>
    /\ unsel[1] # rp.pa.Name
    /\ sm.repo[unsel[1]] = "no" /\ sm.vendor[unsel[1]] = "no"

\* C8: for a name that exists neither upstream nor in vendor,
\* createVersionQueue fails with cannotResolve, no queue is pushed and the
\* selection is unchanged; when the backtrack that follows fails, Solve
\* returns that failure.
C8_MissingProject ==
    [][/\ MissingHead =>
            /\ pc' = "backtrack"
            /\ err' = [kind |-> "cannotResolve", pn |-> unsel[1]]
            /\ UNCHANGED <<sel, unsel, versions, attempts>>
       /\ pc = "backtrack" /\ err.kind = "cannotResolve" /\ pc' = "done" =>
            result' = [Projects |-> <<>>, SolveFailure |-> err]]_vars

\* Solve returned cannotResolve for a direct dependency of the root.
C8_Witness ==
    /\ Failed
    /\ result.SolveFailure.kind = "cannotResolve"
    /\ \E d \in Range(Declared(root.pa)) : d.Name = result.SolveFailure.pn

StructuredKinds ==
    {"cannotResolve", "versionNotAllowed", "disjointConstraint",
     "constraintNotAllowed", "noVersion"}

\* C9 as stated: when Solve fails, Projects is empty and SolveFailure is the
\* error of the last createVersionQueue call, of a structured kind.
C9_StructuredFailure ==
    Failed =>
        /\ result.Projects = <<>>
        /\ result.SolveFailure = err
        /\ result.SolveFailure.kind \in StructuredKinds

\* C9 amended: when Solve fails, Projects is empty and SolveFailure is the
\* error of the last createVersionQueue call: of a structured kind, or an
\* error the source manager returned.
C9_FailureIsLastError ==
    Failed =>
        /\ result.Projects = <<>>
        /\ result.SolveFailure = err
        /\ result.SolveFailure.kind \in StructuredKinds \cup {"sourceManager"}

\* Solve returned an error of the source manager.
C9_Witness == Failed /\ result.SolveFailure.kind = "sourceManager"

\* C10: once the root is selected, after every iteration of the solve loop
\* and every return of backtrack there is one queue on the stack for each
\* selected atom but the root.
C10_QueuePerAtom ==
    pc \in {"solve", "backtrack", "done"} =>
        Len(versions) = Len(sel.projects) - 1

\* A backtrack has re-committed a queue.
C10_Witness == pc = "solve" /\ attempts >= 1 /\ Len(versions) >= 1

\* Between driver steps: the root is selected and no operation is under way.
BetweenSteps == pc \in {"solve", "backtrack", "done"}

\* The names that have an inbound edge and are the name of no selected atom.
EdgedUnselected ==
    {n \in Names : sel.deps[n] # <<>>} \ {p.Name : p \in Range(sel.projects)}

\* C11: between driver steps the names of the frontier are exactly the names
\* that have at least one inbound edge and are the name of no selected atom,
\* whatever the dependency graph.
C11_FrontierMembership == BetweenSteps => Range(unsel) = EdgedUnselected

\* C11 on the graphs where no project declares a dependency on the root.
C11_FrontierMembershipNoCycle ==
    BetweenSteps /\ ~DependsOnRoot => Range(unsel) = EdgedUnselected

\* C12: in every reachable state no two selected atoms have the same name.
C12_UniqueNames == OneAtomPerName(sel.projects)

\* C12 on the graphs where no project declares a dependency on the root.
C12_UniqueNamesNoCycle == ~DependsOnRoot => OneAtomPerName(sel.projects)

\* The edges on name n contributed by the atoms of ps, in commit order.
RECURSIVE EdgesOn(_, _)
EdgesOn(ps, n) ==
    IF ps = <<>> THEN <<>>
    ELSE LET pa == Last(ps)
             own == Declared(pa)
             OnN(e) == e.Dep.Name = n
         IN  EdgesOn(Front(ps), n)
                \o SelectSeq([i \in DOMAIN own |-> Dependency(pa, own[i])], OnN)

\* C13: between driver steps the edge list of every name holds exactly the
\* edges declared by the selected atoms, in commit order: every declared
\* dependency of a selected atom has its edge, and every edge has a selected
\* depender that declares it.
C13_DepsMatchSelection ==
    BetweenSteps => \A n \in Names : sel.deps[n] = EdgesOn(sel.projects, n)

\* After a successful backtrack a name carries the edges of two dependers.
C13_Witness ==
    /\ pc = "solve" /\ attempts >= 1
    /\ \E n \in Names : Len(sel.deps[n]) = 2

\* The solver's state as selectVersion finds it: at solve entry the root,
\* the lock and the upgrade set have been recorded.
Entered ==
    IF pc = "new"
    THEN [State EXCEPT !.rp = root, !.rlm = root.lock, !.latest = toUpgrade]
    ELSE State

\* selectVersion(pa) can be called: the atom's manifest can be read.
Selectable(pa) == GetProjectInfo(pa).err.kind = "nil"

\* selectVersion(pa); unselectLast() leaves the selected atoms, the members
\* of the frontier and every edge list as they were.
Restored(pa) ==
    With(unselectLast(selectVersion(Entered, pa)), LAMBDA s :
        /\ s.panic = ""
        /\ s.sel.projects = sel.projects
        /\ Range(s.unsel) = Range(unsel)
        /\ s.sel.deps = sel.deps)

\* C14: in every state at solve entry or between driver steps, for every
\* atom whose manifest can be read, selectVersion followed by unselectLast
\* restores the selected atoms, the frontier's members and the edge lists.
C14_SelectUnselectInverse ==
    pc \in {"new", "solve", "backtrack", "done"} =>
        \A n \in Names, v \in Vers :
            Selectable(Atom(n, v)) => Restored(Atom(n, v))

\* C14 for the atoms whose name is on the frontier.
C14_InverseOnFrontier ==
    pc \in {"new", "solve", "backtrack", "done"} =>
        \A n \in Range(unsel), v \in Vers :
            Selectable(Atom(n, v)) => Restored(Atom(n, v))

\* The queue has a candidate after its current version: a listed version
\* behind the head, or an upstream list not yet loaded behind a lock head.
HasMore(q) ==
    \/ Len(q.pi) > 1
    \/ ~q.allLoaded /\ ListVersions(q.ref).vl # <<>>

\* The stack positions whose queue has a candidate after its current one.
Untried == {i \in DOMAIN versions : HasMore(versions[i])}

\* C15: when backtrack returns true the queue it has re-committed, now the
\* top of the stack, is the most recently pushed of the queues that had a
\* candidate after their current version; when it returns false no queue
\* on the stack had one.
C15_NearestUntried ==
    [][pc = "backtrack" =>
        /\ pc' = "solve" =>
              /\ Untried # {}
              /\ \A i \in Untried : i <= Len(versions')
              /\ Len(versions') \in Untried
              /\ Last(versions').ref = versions[Len(versions')].ref
        /\ pc' = "done" => Untried = {}]_vars

\* The versions findValidVersion walks from the queue q, in order: those it
\* holds, then the upstream list when that is not loaded yet.
Candidates(q) ==
    IF q.allLoaded THEN q.pi ELSE q.pi \o ListVersions(q.ref).vl

\* The outcome of findValidVersion entered in state s with the queue s.q:
\* no panic, and when the walk finds no acceptable version, a NoVersion
\* error for the queue's name holding exactly the failures this walk has
\* added to the queue's log, one for each candidate walked, in the
\* candidates' order, with the first queue of the first depender on the
\* name marked failed unless that depender bears the root's name.
WalkOutcome(s) ==
    With(findValidVersion(s), LAMBDA f :
        /\ f.s.panic = ""
        /\ f.err.kind # "nil" =>
             LET ref == s.q.ref
                 was == Len(s.q.fails)
                 dn == s.sel.deps[ref][1].Depender.Name
                 k == FirstQueue(s.versions, dn)
             IN  /\ f.err.kind = "noVersion" /\ f.err.pn = ref
                 /\ Len(f.err.fails) >= 1
                 /\ Len(f.s.q.fails) = was + Len(f.err.fails)
                 /\ SubSeq(f.s.q.fails, 1, was) = s.q.fails
                 /\ Len(f.err.fails) <= Len(Candidates(s.q))
                 /\ ref \notin sm.listErr =>
                       Len(f.err.fails) = Len(Candidates(s.q))
                 /\ \A i \in DOMAIN f.err.fails :
                       /\ f.err.fails[i] = f.s.q.fails[was + i]
                       /\ Subject(f.err.fails[i]).Name = ref
                       /\ Subject(f.err.fails[i]).Version
                             \in {Candidates(s.q)[i], 0}
                 /\ dn # s.rp.pa.Name =>
                       k # 0 /\ f.s.versions[k].failed)

\* The exits of findValidVersion without an acceptable version.
WalkFails(s) == findValidVersion(s).err.kind # "nil"

\* createVersionQueue is about to call findValidVersion for the next name.
FirstWalk ==
    /\ pc = "solve" /\ unsel # <<>>
    /\ unsel[1] # rp.pa.Name
    /\ Found(unsel[1])
    /\ newVersionQueue(unsel[1],
                       getLockVersionIfValid(State, unsel[1])).err.kind = "nil"

\* The state in which createVersionQueue calls findValidVersion.
FirstWalkState ==
    [State EXCEPT
       !.q = newVersionQueue(unsel[1],
                             getLockVersionIfValid(State, unsel[1])).q]

\* The state in which backtrack has retracted the atom of the top queue.
Retracted ==
    unselectLast([State EXCEPT !.versions = Front(versions),
                               !.q = Last(versions), !.qOn = TRUE])

\* backtrack is about to call findValidVersion for the top queue, advanced.
LaterWalk ==
    /\ pc = "backtrack" /\ versions # <<>>
    /\ Last(versions).failed
    /\ Retracted.panic = ""
    /\ advance(Retracted.q, NoError).err.kind = "nil"
    /\ ~isExhausted(advance(Retracted.q, NoError).q)

\* The state in which backtrack calls findValidVersion.
LaterWalkState ==
    [Retracted EXCEPT !.q = advance(Retracted.q, NoError).q]

\* C16: whenever findValidVersion is called on a non-empty queue, by
\* createVersionQueue or by backtrack, and its walk ends without an
\* acceptable version, it marks the first queue of the first depender on the
\* queue's name as failed unless that is the root, and returns a NoVersion
\* error for the name whose failures are those this walk recorded, not those
\* of earlier walks, in the order of discovery.
C16_WalkFailure ==
    /\ FirstWalk /\ current(FirstWalkState.q) # 0 => WalkOutcome(FirstWalkState)
    /\ LaterWalk => WalkOutcome(LaterWalkState)

\* backtrack's walk of a queue whose log holds an earlier walk's failure
\* ends without an acceptable version.
C16_Witness ==
    /\ LaterWalk
    /\ Last(versions).fails # <<>>
    /\ WalkFails(LaterWalkState)

\* createVersionQueue's walk fails and marks the queue of a depender.
C16_WitnessMarked ==
    /\ FirstWalk /\ current(FirstWalkState.q) # 0
    /\ WalkFails(FirstWalkState)
    /\ sel.deps[unsel[1]][1].Depender.Name # rp.pa.Name

\* The queue at position i is the oldest on the stack with the given ref.
Oldest(i, name) ==
    /\ versions[i].ref = name
    /\ \A j \in 1..(i - 1) : versions[j].ref # name

\* fail(name) changes nothing but the failed flag of the oldest queue with
\* that ref, and nothing at all when the name is the root's.
FailFrame(name) ==
    With(fail(State, name), LAMBDA s :
        /\ [s EXCEPT !.versions = versions] = State
        /\ Len(s.versions) = Len(versions)
        /\ \A i \in DOMAIN versions :
              /\ [s.versions[i] EXCEPT !.failed = versions[i].failed]
                    = versions[i]
              /\ s.versions[i].failed <=>
                    \/ versions[i].failed
                    \/ name # rp.pa.Name /\ Oldest(i, name))

\* The names a recorded failure marks through fail().
Blamed(f) ==
    IF f.kind = "versionNotAllowed"
    THEN {d.Depender.Name : d \in Range(f.failparent)}
    ELSE IF f.kind = "disjointConstraint"
    THEN {d.Depender.Name : d \in Range(f.failsib)}
    ELSE IF f.kind = "constraintNotAllowed" THEN {f.goal.Dep.Name}
    ELSE {}

\* A loop iteration fails on the next name with every rejection of its walk
\* blamed on the root alone, the root being its first depender.
RootOnlyRejection ==
    /\ pc = "solve" /\ pc' = "backtrack"
    /\ err'.kind = "noVersion"
    /\ sel.deps[err'.pn][1].Depender.Name = rp.pa.Name
    /\ \A i \in DOMAIN err'.fails : Blamed(err'.fails[i]) \subseteq {rp.pa.Name}

\* C17: in every state between driver steps fail(name) sets the failed flag
\* of the oldest queue whose ref is the name and changes nothing else, and
\* changes nothing when the name is the root's or no queue has that ref; a
\* walk whose rejections are all blamed on the root leaves every queue as it
\* was.
C17_FailFrame ==
    /\ [](BetweenSteps => \A n \in Names : FailFrame(n))
    /\ [][RootOnlyRejection => versions' = versions]_vars

\* A walk whose rejections are all blamed on the root has failed, and the
\* queues on the stack are all unmarked.
C17_Witness ==
    /\ pc = "backtrack" /\ err.kind = "noVersion"
    /\ versions # <<>>
    /\ \A i \in DOMAIN versions : ~versions[i].failed
    /\ \A i \in DOMAIN err.fails : Blamed(err.fails[i]) = {rp.pa.Name}

\* C18: attempts grows by exactly one when backtrack returns true, having
\* re-committed the current version of the queue now on top of the stack;
\* it is unchanged when backtrack returns false and by every other step.
C18_AttemptsCountsBacktracks ==
    [][/\ pc = "backtrack" /\ pc' = "solve" =>
            /\ attempts' = attempts + 1
            /\ versions' # <<>>
            /\ Last(sel'.projects)
                   = Atom(Last(versions').ref, current(Last(versions')))
       /\ pc = "backtrack" /\ pc' # "solve" => attempts' = attempts
       /\ pc # "backtrack" => attempts' = attempts]_vars

\* Solve has failed after one successful backtrack.
C18_Witness == Failed /\ attempts = 1

\* The messages of the canary panics of findValidVersion and satisfiable.
Canaries ==
    {"version queue is empty, should not happen",
     "canary - checking version of empty ProjectAtom"}

\* The next driver step runs into a canary: findValidVersion is entered
\* with an empty queue or satisfiable is called on the empty atom, in
\* createVersionQueue or in backtrack, or createVersionQueue returns an
\* empty queue without an error.
CanaryAhead ==
    \/ /\ pc = "solve" /\ unsel # <<>>
       /\ With(createVersionQueue(State, unsel[1]), LAMBDA r :
             \/ r.s.panic \in Canaries
             \/ r.s.panic = "" /\ r.err.kind = "nil" /\ current(r.s.q) = 0)
    \/ /\ pc = "backtrack"
       /\ backtrack(State).s.panic \in Canaries

\* C19: between driver steps every queue on the stack has a current
\* version, and no driver step runs into a canary panic.
C19_NoCanary ==
    /\ BetweenSteps => \A i \in DOMAIN versions : current(versions[i]) # 0
    /\ ~CanaryAhead

\* C19 for source managers that list at least one version for every project.
C19_NoCanaryWhenListed ==
    (\A n \in Names : sm.versions[n] # <<>>) => C19_NoCanary

\* C20: once the loop of solve() is entered, Solve eventually returns, with
\* success or with a failure, for every source manager and every graph.
C20_SolveReturns == (pc = "solve") ~> (pc = "done")

\* Every solve ends: it returns or it stops in a panic.
C20_ReturnsOrPanics == <>(pc \in {"done", "panic"})

\* C20 for source managers that list at least one version for every project.
C20_SolveReturnsWhenListed ==
    (pc = "solve" /\ \A n \in Names : sm.versions[n] # <<>>) ~> (pc = "done")

\* The stack is aligned with the selection: the root is the first selected
\* atom, and the atom after it at each position is the current version of
\* the queue at that position of the stack.
Aligned ==
    /\ sel.projects # <<>>
    /\ sel.projects[1] = rp.pa
    /\ Len(versions) = Len(sel.projects) - 1
    /\ \A i \in DOMAIN versions :
          sel.projects[i + 1] = Atom(versions[i].ref, current(versions[i]))

\* backtrack leaves in place the atoms and queues below the queue it
\* re-commits, and retracts the atoms above down to the root when it fails.
RetractsFromTheTop ==
    pc = "backtrack" /\ pc' \in {"solve", "done"} =>
        LET m == Len(versions')
            kept == IF pc' = "solve" THEN m - 1 ELSE m
        IN  /\ m <= Len(versions)
            /\ pc' = "done" => m = 0
            /\ SubSeq(sel'.projects, 1, kept + 1)
                  = SubSeq(sel.projects, 1, kept + 1)
            /\ \A i \in DOMAIN versions' : versions'[i].ref = versions[i].ref
            /\ \A i \in 1..kept : versions'[i].pi = versions[i].pi

\* C21: between driver steps the root is the first selected atom and each
\* queue of the stack has the name and the current version of the selected
\* atom at the next position; backtrack retracts atoms and queues together
\* from the top, so the root is never retracted.
C21_StackAligned ==
    /\ [](BetweenSteps => Aligned)
    /\ [][RetractsFromTheTop]_vars

\* Solve has returned three aligned atoms after a backtrack.
C21_Witness ==
    /\ Succeeded /\ attempts >= 1
    /\ Len(versions) = 2
    /\ Aligned

====
